---- MODULE Spec2Model ----
(***************************************************************************)
(* A model of canoe's replicated-node orchestrator (src/raft.go): the Node *)
(* lifecycle (Start, Stop, Destroy), the membership requests               *)
(* (proposePeerAddition, proposePeerDeletion) with their observer, the     *)
(* Ready loop (scanReady) with its batch                                   *)
(* pipeline, committed-entry application (publishEntries), snapshot        *)
(* adoption (processSnapshot) and snapshot creation (createSnapAndCompact).*)
(*                                                                         *)
(* The Raft engine (raft.Node), the WAL, the snapshot store, the memory    *)
(* storage and the peer transport are external collaborators: the model    *)
(* keeps the part of their state the orchestrator reads or writes and      *)
(* draws their answers (a Ready batch, a failing Save) from small sets.    *)
(***************************************************************************)
EXTENDS Integers, Sequences, FiniteSets, TLC

\* ------------------------------------------------------------------ bounds
\* Highest log index the Raft engine hands out.
MaxIndex == 2
\* Number of times Start may get past its early return (each may spawn a loop).
MaxStarts == 2
\* re-proposals of one proposePeerDeletion that the model follows
MaxRetries == 2
\* Width of a node id in the codec of the snapshot metadata (uint64 in the
\* program): ids are 0..2^IdBits - 1.
IdBits == 4
\* Peers in a map given to MarshalJSON, and characters in a key of a document
\* given to UnmarshalJSON.
MaxPeers == 2
MaxKeyLen == 3

\* --------------------------------------------------------- program constants
\* raft.Config.ElectionTick, set in nonInitNode.
ElectionTick == 10

\* ------------------------------------------------------------ value domains
SelfID == "self"
PeerID == "peer"
NodeIDs == {SelfID, PeerID}

\* A conf-change context: empty, or the JSON of one confChangeNodeContext.
NoContext == ""
PeerContext == "ctx"
Contexts == {NoContext, PeerContext}

\* json.Unmarshal(cc.Context, &ctxData): the record the JSON holds.
Unmarshal(ctx) == [IP |-> "10.0.0.2", RaftPort |-> "7002", APIPort |-> "8002"]

\* A URL built from the API port of the record.
RaftURLOfAPIPort(ctxData) == <<"http://", ctxData.IP, ":", ctxData.APIPort>>

\* fmt.Sprintf("http://%s:%d", ctxData.IP, ctxData.RaftPort)
RaftURL(ctxData) == <<"http://", ctxData.IP, ":", ctxData.RaftPort>>

NormalEntry(data) ==
    [Type |-> "EntryNormal", Data |-> data, ccType |-> "", NodeID |-> "", Context |-> ""]
ConfChangeEntry(t, n, c) ==
    [Type |-> "EntryConfChange", Data |-> "cc", ccType |-> t, NodeID |-> n, Context |-> c]

\* A payload for which the FSM's Apply returns an error.
RejectedData == "bad"

\* The entries the engine may commit: a payload the FSM takes, one it
\* rejects, the empty no-op of a leader election, AddNode with or without a
\* context (a context is the JSON this program wrote, so it parses),
\* RemoveNode.
EntryKinds ==
    {NormalEntry("x"), NormalEntry(RejectedData), NormalEntry("")}
    \cup {ConfChangeEntry("ConfChangeAddNode", n, c) : n \in NodeIDs, c \in Contexts}
    \cup {ConfChangeEntry("ConfChangeRemoveNode", n, NoContext) : n \in NodeIDs}

LoopIDs == 1..MaxStarts

NoErr == "nil"
ErrorRemovedFromCluster == "I have been removed from cluster"

\* A Ready batch: Entries and CommittedEntries are ranges of log indices
\* (lo..hi, empty when hi < lo), Snapshot is the index of the snapshot the
\* batch carries (0: none), gen the engine that handed it out.  Every batch
\* carries Messages.  The flags record how far scanReady got with it.
NoReady ==
    [entLo |-> 1, entHi |-> 0, comLo |-> 1, comHi |-> 0, Snapshot |-> 0,
     gen |-> 0, saveIssued |-> FALSE, saved |-> FALSE,
     appended |-> FALSE, sent |-> FALSE, published |-> FALSE]

VARIABLES
    \* NodeConfig
    bootstrapNode, dataDir, snapshotInterval,
    \* Node fields
    started, initialized, running, stopc, closedc, wal, peerMap, lastConfState,
    raftStorage, transport, fsm, node,
    \* the disk under dataDir
    walExist, walLog, snapDisk,
    \* the cluster's log as the engine learns it
    elog,
    \* the goroutines: the caller of Start/Stop and the Ready loops
    callerPc, rejoinCluster, lastCall, starts, served,
    loopPc, loopChan, loopWal, loopErr, rd, crashed,
    \* history
    startMode, handshakes, published, applyCalls, fanout, events,
    \* history: rn.running has gone from true to false
    fell,
    \* the handler of a membership request in proposePeerAddition or
    \* proposePeerDeletion: its position, the request, its result, the
    \* number of re-proposals, and (history) whether a matching entry was
    \* fanned out after the proposal, and whether one was received
    hPc, hOp, hResult, hDepth, hSeen, hGot, hAsync, observers,
    \* the snapshot metadata codec at work: its position, whether the
    \* document came from MarshalJSON, the peers given to MarshalJSON, the
    \* encoded document (peers keyed by strings) and what UnmarshalJSON
    \* returned
    mPc, mOwn, mPeers, mDoc, mOut,
    \* a second goroutine of the host program that calls Stop while the
    \* first is inside Start: its position
    stopperPc

cfgVars == <<bootstrapNode, dataDir, snapshotInterval>>
lifeVars == <<started, initialized, running>>
chanVars == <<stopc, closedc>>
diskVars == <<walExist, walLog, snapDisk>>
dataVars == <<peerMap, lastConfState, raftStorage, transport, fsm, node, elog>>
callerVars == <<callerPc, rejoinCluster, lastCall, starts, served>>
loopVars == <<loopPc, loopChan, loopWal, loopErr, rd>>
histVars == <<startMode, handshakes, published, applyCalls, fanout, events>>
obsVars == <<hPc, hOp, hResult, hDepth, hSeen, hGot, hAsync, observers>>
metaVars == <<mPc, mOwn, mPeers, mDoc, mOut>>

vars == <<cfgVars, lifeVars, chanVars, wal, diskVars, dataVars, callerVars,
          loopVars, crashed, fell, histVars, obsVars, metaVars, stopperPc>>

Max(a, b) == IF a >= b THEN a ELSE b

\* ------------------------------------------------------------ the peer map
\* rn.peerMap[id] = ctx
PeerMapPut(pm, id, ctx) ==
    [n \in (DOMAIN pm) \cup {id} |-> IF n = id THEN ctx ELSE pm[n]]

\* delete(rn.peerMap, id)
PeerMapDelete(pm, id) == [n \in (DOMAIN pm) \ {id} |-> pm[n]]

EmptyPeerMap == [n \in {} |-> NoContext]

\* rafthttp.Transport.AddPeer(id, urls): a peer the transport has is kept.
AddPeer(tp, id, urls) ==
    [n \in (DOMAIN tp) \cup {id} |-> IF n \in DOMAIN tp THEN tp[n] ELSE urls]

\* rafthttp.Transport.RemovePeer(id)
RemovePeer(tp, id) == [n \in (DOMAIN tp) \ {id} |-> tp[n]]

NoPeers == [n \in {} |-> {}]

\* One step of the Ready loop, as the trace of a batch records it.
Event(op, i) == [op |-> op, i |-> i]

\* ------------------------------------------------------- the Raft engine
\* raft.Node.ApplyConfChange: the engine's membership after the change.
\* The engine ignores a change whose NodeID is None; every id here is real.
ApplyConfChange(nodes, e) ==
    IF e.ccType = "ConfChangeAddNode" THEN nodes \cup {e.NodeID}
    ELSE nodes \ {e.NodeID}

\* What a peer that runs this program holds after the first s entries of the
\* log: the payloads its FSM applied, its peerMap, the engine's conf state.
\* These fill the snapshot a leader sends to a lagging follower.
RECURSIVE DataAt(_, _), PeersAt(_, _), ConfAt(_, _)
DataAt(log, s) ==
    IF s = 0 THEN <<>>
    ELSE IF log[s].Type = "EntryNormal" /\ log[s].Data \notin {"", RejectedData}
         THEN Append(DataAt(log, s - 1), s)
         ELSE DataAt(log, s - 1)
PeersAt(log, s) ==
    IF s = 0 THEN EmptyPeerMap
    ELSE LET e == log[s]
             prev == PeersAt(log, s - 1)
         IN  IF e.Type # "EntryConfChange" THEN prev
             ELSE IF e.ccType = "ConfChangeAddNode"
                  THEN IF e.Context # NoContext
                       THEN PeerMapPut(prev, e.NodeID, Unmarshal(e.Context)) ELSE prev
                  ELSE PeerMapDelete(prev, e.NodeID)
ConfAt(log, s) ==
    IF s = 0 THEN {}
    ELSE IF log[s].Type = "EntryConfChange"
         THEN ApplyConfChange(ConfAt(log, s - 1), log[s])
         ELSE ConfAt(log, s - 1)

NoSnapshot == [Index |-> 0, Peers |-> EmptyPeerMap, Data |-> <<>>, ConfState |-> {}]
SnapshotAt(log, s) ==
    [Index |-> s, Peers |-> PeersAt(log, s), Data |-> DataAt(log, s),
     ConfState |-> ConfAt(log, s)]

\* The filter of the observer a membership request registers: a conf
\* change of the request's type for the node the request names (PeerID).
Matches(op, e) ==
    /\ e.Type = "EntryConfChange"
    /\ e.NodeID = PeerID
    /\ \/ op = "add" /\ e.ccType = "ConfChangeAddNode"
       \/ op = "delete" /\ e.ccType = "ConfChangeRemoveNode"

\* observe for the request's observer, whose channel has no buffer: the
\* send does not block, so the entry is received only by a handler that is
\* blocked in its select, and is dropped otherwise.
observe(pc, matched) ==
    IF matched /\ pc = "select" THEN "received"
    ELSE IF matched /\ pc \in {"registered", "proposed"} THEN "dropped"
    ELSE "none"

\* --------------------------------------------------- committed entries
\* The state publishEntries works on, as one record.
NilConfState == [nil |-> TRUE, Nodes |-> {}]
PubState(f, pm, tp, lcs, conf, fo, pub, calls, evs) ==
    [fsm |-> f, peerMap |-> pm, peers |-> tp, lastConfState |-> lcs,
     conf |-> conf, fanout |-> fo, published |-> pub, applyCalls |-> calls,
     events |-> evs, err |-> NoErr]

\* A loop body that lacks the check for an empty payload: every normal
\* entry reaches the FSM.
PublishEntryAppliesEmpty(st, log, i) ==
    LET e == log[i]
        seen == [st EXCEPT !.published = @ \cup {i}]
        observed(s) == [s EXCEPT !.fanout = Append(@, i),
                                 !.events = Append(@, Event("observe", i))]
        applied(s) == [s EXCEPT !.applyCalls = Append(@, i),
                                !.events = Append(@, Event("fsm.Apply", i))]
    IN  IF e.Type = "EntryNormal"
        THEN IF e.Data = RejectedData
             THEN [applied(seen) EXCEPT !.err = "fsm.Apply"]
             ELSE observed([applied(seen) EXCEPT !.fsm = Append(@, i)])
        ELSE LET conf == ApplyConfChange(st.conf, e)
                 cc == [seen EXCEPT !.conf = conf,
                                    !.lastConfState = [nil |-> FALSE, Nodes |-> conf],
                                    !.events = Append(@, Event("ApplyConfChange", i))]
             IN  IF e.ccType = "ConfChangeAddNode"
                 THEN IF e.Context # NoContext
                      THEN observed([cc EXCEPT
                               !.peers = IF e.NodeID # SelfID
                                         THEN AddPeer(@, e.NodeID,
                                                  {RaftURL(Unmarshal(e.Context))})
                                         ELSE @,
                               !.peerMap = PeerMapPut(@, e.NodeID,
                                                      Unmarshal(e.Context))])
                      ELSE observed(cc)
                 ELSE IF e.NodeID = SelfID
                      THEN [cc EXCEPT !.err = ErrorRemovedFromCluster]
                      ELSE observed([cc EXCEPT
                               !.peers = RemovePeer(@, e.NodeID),
                               !.peerMap = PeerMapDelete(@, e.NodeID)])

\* A loop body that fans a payload entry out before it calls the FSM.
PublishEntryObservesFirst(st, log, i) ==
    LET e == log[i]
        seen == [st EXCEPT !.published = @ \cup {i}]
        observed(s) == [s EXCEPT !.fanout = Append(@, i),
                                 !.events = Append(@, Event("observe", i))]
        applied(s) == [s EXCEPT !.applyCalls = Append(@, i),
                                !.events = Append(@, Event("fsm.Apply", i))]
    IN  IF e.Type = "EntryNormal"
        THEN IF e.Data = ""
             THEN observed(seen)
             ELSE IF e.Data = RejectedData
                  THEN [applied(seen) EXCEPT !.err = "fsm.Apply"]
                  ELSE [applied(observed(seen)) EXCEPT !.fsm = Append(@, i)]
        ELSE LET conf == ApplyConfChange(st.conf, e)
                 cc == [seen EXCEPT !.conf = conf,
                                    !.lastConfState = [nil |-> FALSE, Nodes |-> conf],
                                    !.events = Append(@, Event("ApplyConfChange", i))]
             IN  IF e.ccType = "ConfChangeAddNode"
                 THEN IF e.Context # NoContext
                      THEN observed([cc EXCEPT
                               !.peers = IF e.NodeID # SelfID
                                         THEN AddPeer(@, e.NodeID,
                                                  {RaftURL(Unmarshal(e.Context))})
                                         ELSE @,
                               !.peerMap = PeerMapPut(@, e.NodeID,
                                                      Unmarshal(e.Context))])
                      ELSE observed(cc)
                 ELSE IF e.NodeID = SelfID
                      THEN [cc EXCEPT !.err = ErrorRemovedFromCluster]
                      ELSE observed([cc EXCEPT
                               !.peers = RemovePeer(@, e.NodeID),
                               !.peerMap = PeerMapDelete(@, e.NodeID)])

\* One iteration of the loop of publishEntries, on the entry at index i.
PublishEntry(st, log, i) ==
    LET e == log[i]
        seen == [st EXCEPT !.published = @ \cup {i}]
        observed(s) == [s EXCEPT !.fanout = Append(@, i),
                                 !.events = Append(@, Event("observe", i))]
        applied(s) == [s EXCEPT !.applyCalls = Append(@, i),
                                !.events = Append(@, Event("fsm.Apply", i))]
    IN  IF e.Type = "EntryNormal"
        THEN IF e.Data = ""
             THEN observed(seen)
             ELSE IF e.Data = RejectedData
                  THEN [applied(seen) EXCEPT !.err = "fsm.Apply"]
                  ELSE observed([applied(seen) EXCEPT !.fsm = Append(@, i)])
        ELSE LET conf == ApplyConfChange(st.conf, e)
                 cc == [seen EXCEPT !.conf = conf,
                                    !.lastConfState = [nil |-> FALSE, Nodes |-> conf],
                                    !.events = Append(@, Event("ApplyConfChange", i))]
             IN  IF e.ccType = "ConfChangeAddNode"
                 THEN IF e.Context # NoContext
                      THEN observed([cc EXCEPT
                               !.peers = IF e.NodeID # SelfID
                                         THEN AddPeer(@, e.NodeID,
                                                  {RaftURL(Unmarshal(e.Context))})
                                         ELSE @,
                               !.peerMap = PeerMapPut(@, e.NodeID,
                                                      Unmarshal(e.Context))])
                      ELSE observed(cc)
                 ELSE IF e.NodeID = SelfID
                      THEN [cc EXCEPT !.err = ErrorRemovedFromCluster]
                      ELSE observed([cc EXCEPT
                               !.peers = RemovePeer(@, e.NodeID),
                               !.peerMap = PeerMapDelete(@, e.NodeID)])

\* A loop that notes the error of an entry but goes on to the entries after it.
RECURSIVE publishEntriesPastError(_, _, _, _)
publishEntriesPastError(st, log, lo, hi) ==
    IF lo > hi THEN st
    ELSE LET r == PublishEntry([st EXCEPT !.err = NoErr], log, lo)
         IN  publishEntriesPastError(
                 [r EXCEPT !.err = IF st.err # NoErr THEN st.err ELSE @],
                 log, lo + 1, hi)

\* publishEntries(ents) for ents = log[lo..hi]: stops at the first error.
RECURSIVE publishEntries(_, _, _, _)
publishEntries(st, log, lo, hi) ==
    IF lo > hi \/ st.err # NoErr THEN st
    ELSE publishEntries(PublishEntry(st, log, lo), log, lo + 1, hi)

\* ------------------------------------------- snapshot metadata codec
\* Strings are sequences of characters.
DigitChars == <<"0", "1", "2", "3", "4", "5", "6", "7", "8", "9">>
Digits == {DigitChars[d] : d \in 1..10}
DigitOf(c) == (CHOOSE d \in 1..10 : DigitChars[d] = c) - 1

\* strconv.FormatUint(key, 10)
RECURSIVE FormatUint(_)
FormatUint(n) ==
    IF n < 10 THEN <<DigitChars[n + 1]>>
    ELSE FormatUint(n \div 10) \o <<DigitChars[(n % 10) + 1]>>

\* A ParseUint that lets the value wrap around instead of reporting the
\* overflow.
RECURSIVE ParseUintWrapping(_, _)
ParseUintWrapping(str, n) ==
    IF str = <<>> THEN [err |-> NoErr, n |-> n]
    ELSE IF Head(str) \notin Digits THEN [err |-> "ErrSyntax", n |-> 0]
    ELSE ParseUintWrapping(Tail(str), (n * 10 + DigitOf(Head(str))) % (2 ^ IdBits))

\* strconv.ParseUint(key, 10, 64) from its first character on, n being the
\* value of the characters before: base 10, no sign, no underscore, and a
\* range error when the value does not fit the width.
RECURSIVE ParseUint(_, _)
ParseUint(str, n) ==
    IF str = <<>> THEN [err |-> NoErr, n |-> n]
    ELSE IF Head(str) \notin Digits THEN [err |-> "ErrSyntax", n |-> 0]
    ELSE IF n * 10 + DigitOf(Head(str)) >= 2 ^ IdBits THEN [err |-> "ErrRange", n |-> 0]
    ELSE ParseUint(Tail(str), n * 10 + DigitOf(Head(str)))

\* snapshotMetadata.MarshalJSON: the peers under the decimal strings of
\* their ids.  Distinct ids have distinct strings, so no key is lost.
MarshalJSON(peers) ==
    [key \in {FormatUint(id) : id \in DOMAIN peers} |->
        peers[CHOOSE id \in DOMAIN peers : FormatUint(id) = key]]

\* snapshotMetadata.UnmarshalJSON over the keys of the document in the
\* order the map iteration takes them (order: a sequence of the keys that
\* are left); out: the map filled so far.  The first key that does not
\* parse ends the call with its error.
RECURSIVE UnmarshalJSON(_, _, _)
UnmarshalJSON(doc, order, out) ==
    IF order = <<>> THEN [err |-> NoErr, Peers |-> out]
    ELSE LET key == Head(order)
             conv == IF key = <<>> THEN [err |-> "ErrSyntax", n |-> 0]
                     ELSE ParseUint(key, 0)
         IN  IF conv.err # NoErr THEN [err |-> conv.err, Peers |-> out]
             ELSE UnmarshalJSON(doc, Tail(order),
                                [id \in (DOMAIN out) \cup {conv.n} |->
                                    IF id = conv.n THEN doc[key] ELSE out[id]])

\* ------------------------------------------------------ memory storage
\* raft.MemoryStorage: the snapshot, the index of the dummy entry ents[0]
\* (first_index - 1) and the last index.
NewMemoryStorage == [snapshot |-> NoSnapshot, offset |-> 0, last |-> 0]

FirstIndex(ms) == ms.offset + 1

\* MemoryStorage.Append(log[lo..hi]).  "panic": the entries leave a gap
\* after the last stored index.
StorageAppend(ms, lo, hi) ==
    IF hi < lo THEN [ms |-> ms, panic |-> FALSE]
    ELSE IF hi < FirstIndex(ms) THEN [ms |-> ms, panic |-> FALSE]
    ELSE IF Max(lo, FirstIndex(ms)) > ms.last + 1 THEN [ms |-> ms, panic |-> TRUE]
    ELSE [ms |-> [ms EXCEPT !.last = hi], panic |-> FALSE]

\* MemoryStorage.ApplySnapshot: refuses a snapshot that is not newer, else
\* drops every entry and restarts the log at the snapshot index.
StorageApplySnapshot(ms, snap) ==
    IF ms.snapshot.Index >= snap.Index
    THEN [ms |-> ms, err |-> "ErrSnapOutOfDate"]
    ELSE [ms |-> [snapshot |-> snap, offset |-> snap.Index, last |-> snap.Index],
          err |-> NoErr]

\* ------------------------------------------------------------ snapshots
\* persistSnapshot: writes the snapshot to the snapshot store of the data
\* directory; without a data directory there is no store to write to.
persistSnapshot(disk, snap, ok) ==
    IF ~dataDir THEN [disk |-> disk, err |-> NoErr]
    ELSE IF ok THEN [disk |-> snap, err |-> NoErr]
    ELSE [disk |-> disk, err |-> "persistSnapshot"]

\* createSnapAndCompact(force); ok: whether the snapshot store takes the write.
createSnapAndCompact(force, ok) ==
    LET index == node.applied
        lastSnap == raftStorage.snapshot
        same == [ms |-> raftStorage, disk |-> snapDisk, err |-> NoErr, panic |-> FALSE]
    IN  IF index <= lastSnap.Index /\ ~force THEN same
        \* MemoryStorage.CreateSnapshot
        ELSE IF index <= raftStorage.snapshot.Index
             THEN [same EXCEPT !.err = "ErrSnapOutOfDate"]
        ELSE IF index > raftStorage.last THEN [same EXCEPT !.panic = TRUE]
        ELSE LET raftSnap ==
                    [Index |-> index, Peers |-> peerMap, Data |-> fsm,
                     ConfState |-> IF lastConfState.nil
                                   THEN raftStorage.snapshot.ConfState
                                   ELSE lastConfState.Nodes]
                 created == [raftStorage EXCEPT !.snapshot = raftSnap]
                 \* MemoryStorage.Compact(raftSnap.Metadata.Index)
                 compacted == [created EXCEPT !.offset = index]
                 saved == persistSnapshot(snapDisk, raftSnap, ok)
             IN  IF index <= created.offset
                 THEN [same EXCEPT !.ms = created, !.err = "ErrCompacted"]
                 ELSE [ms |-> compacted, disk |-> saved.disk, err |-> saved.err,
                       panic |-> FALSE]

\* What processSnapshot can come to: it succeeds, fsm.Restore fails or the
\* snapshot store refuses the write.
SnapshotOutcomes == {"ok", "fsm.Restore", "persistSnapshot"}

\* The transport after restoreFSMFromSnapshot added every peer of the
\* snapshot's metadata.
AddSnapshotPeers(tp, peers) ==
    [n \in (DOMAIN tp) \cup (DOMAIN peers) |->
        IF n \in DOMAIN tp THEN tp[n] ELSE {RaftURL(peers[n])}]

\* An adoption that goes on after a failed fsm.Restore.
processSnapshotIgnoresRestore(raftSnap, outcome, evs) ==
    LET step(es, op) == Append(es, Event(op, raftSnap.Index))
        peers == AddSnapshotPeers(transport.peers, raftSnap.Peers)
        e1 == step(evs, "transport.AddPeer")
        e2 == step(e1, IF outcome = "fsm.Restore" THEN "fsm.Restore failed"
                       ELSE "fsm.Restore")
        saved == persistSnapshot(snapDisk, raftSnap, outcome # "persistSnapshot")
        e3 == step(e2, "persistSnapshot")
        applied == StorageApplySnapshot(raftStorage, raftSnap)
        e4 == step(e3, "ApplySnapshot")
        same == [fsm |-> fsm, peers |-> peers, disk |-> snapDisk, ms |-> raftStorage,
                 err |-> NoErr, events |-> evs]
    IN  IF saved.err # NoErr
        THEN [same EXCEPT !.fsm = raftSnap.Data, !.err = saved.err, !.events = e3]
        ELSE IF applied.err # NoErr
        THEN [same EXCEPT !.fsm = raftSnap.Data, !.disk = saved.disk,
                          !.err = applied.err, !.events = e4]
        ELSE [fsm |-> raftSnap.Data, peers |-> peers, disk |-> saved.disk,
              ms |-> applied.ms, err |-> NoErr,
              events |-> step(e4, "ReportSnapshot")]

\* An adoption that writes the snapshot to disk before it restores the FSM.
processSnapshotPersistsFirst(raftSnap, outcome, evs) ==
    LET step(es, op) == Append(es, Event(op, raftSnap.Index))
        peers == AddSnapshotPeers(transport.peers, raftSnap.Peers)
        saved == persistSnapshot(snapDisk, raftSnap, outcome # "persistSnapshot")
        e0 == step(evs, "persistSnapshot")
        e1 == step(e0, "transport.AddPeer")
        e2 == step(e1, IF outcome = "fsm.Restore" THEN "fsm.Restore failed"
                       ELSE "fsm.Restore")
        e3 == e2
        applied == StorageApplySnapshot(raftStorage, raftSnap)
        e4 == step(e3, "ApplySnapshot")
        same == [fsm |-> fsm, peers |-> peers, disk |-> snapDisk, ms |-> raftStorage,
                 err |-> NoErr, events |-> evs]
    IN  IF outcome = "fsm.Restore"
        THEN [same EXCEPT !.err = "fsm.Restore", !.events = e2]
        ELSE IF saved.err # NoErr
        THEN [same EXCEPT !.fsm = raftSnap.Data, !.err = saved.err, !.events = e3]
        ELSE IF applied.err # NoErr
        THEN [same EXCEPT !.fsm = raftSnap.Data, !.disk = saved.disk,
                          !.err = applied.err, !.events = e4]
        ELSE [fsm |-> raftSnap.Data, peers |-> peers, disk |-> saved.disk,
              ms |-> applied.ms, err |-> NoErr,
              events |-> step(e4, "ReportSnapshot")]

\* processSnapshot(raftSnap), with restoreFSMFromSnapshot inlined; evs: the
\* trace of the batch so far.
processSnapshot(raftSnap, outcome, evs) ==
    LET step(es, op) == Append(es, Event(op, raftSnap.Index))
        peers == AddSnapshotPeers(transport.peers, raftSnap.Peers)
        e1 == step(evs, "transport.AddPeer")
        e2 == step(e1, IF outcome = "fsm.Restore" THEN "fsm.Restore failed"
                       ELSE "fsm.Restore")
        saved == persistSnapshot(snapDisk, raftSnap, outcome # "persistSnapshot")
        e3 == step(e2, "persistSnapshot")
        applied == StorageApplySnapshot(raftStorage, raftSnap)
        e4 == step(e3, "ApplySnapshot")
        same == [fsm |-> fsm, peers |-> peers, disk |-> snapDisk, ms |-> raftStorage,
                 err |-> NoErr, events |-> evs]
    IN  IF outcome = "fsm.Restore"
        THEN [same EXCEPT !.err = "fsm.Restore", !.events = e2]
        ELSE IF saved.err # NoErr
        THEN [same EXCEPT !.fsm = raftSnap.Data, !.err = saved.err, !.events = e3]
        ELSE IF applied.err # NoErr
        THEN [same EXCEPT !.fsm = raftSnap.Data, !.disk = saved.disk,
                          !.err = applied.err, !.events = e4]
        ELSE [fsm |-> raftSnap.Data, peers |-> peers, disk |-> saved.disk,
              ms |-> applied.ms, err |-> NoErr,
              events |-> step(e4, "ReportSnapshot")]

\* ------------------------------------------------------------ start-up
walEnabled == dataDir
shouldRejoinCluster == walExist /\ dataDir

\* The highest index k such that the WAL holds every entry of from+1..k.
RECURSIVE WalReach(_, _)
WalReach(saved, from) ==
    IF from + 1 \in saved THEN WalReach(saved, from + 1) ELSE from

\* restoreRaft: the memory storage rebuilt from the latest snapshot and the
\* WAL entries after it.
RestoredStorage ==
    [snapshot |-> snapDisk, offset |-> snapDisk.Index,
     last |-> WalReach(walLog, snapDisk.Index)]

\* The engine a call of raft.StartNode / raft.RestartNode creates over the
\* storage ms: it has applied what the storage has compacted away and holds
\* the entries the storage holds.
NewEngine(ms, conf) ==
    [alive |-> TRUE, gen |-> starts + 1, applied |-> ms.offset, stable |-> ms.last,
     conf |-> conf, preTicks |-> ElectionTick - 1, rdOut |-> FALSE]

NoEngine ==
    [alive |-> FALSE, gen |-> 0, applied |-> 0, stable |-> 0, conf |-> {},
     preTicks |-> 0, rdOut |-> FALSE]

NoWal == [id |-> 0, open |-> FALSE]

Init ==
    /\ bootstrapNode \in BOOLEAN
    /\ dataDir \in BOOLEAN
    /\ snapshotInterval \in {-1, 1}
    /\ started = FALSE /\ initialized = FALSE /\ running = FALSE
    /\ stopc = 0 /\ closedc = {}
    /\ wal = NoWal
    /\ peerMap = EmptyPeerMap
    /\ lastConfState = NilConfState
    /\ raftStorage = NewMemoryStorage
    /\ transport = [state |-> "nil", peers |-> NoPeers]
    /\ fsm = <<>>
    /\ node = NoEngine
    \* a data directory may hold the (empty) WAL of an earlier run
    /\ walExist \in (IF dataDir THEN BOOLEAN ELSE {FALSE})
    /\ walLog = {}
    /\ snapDisk = NoSnapshot
    /\ elog = <<>>
    /\ callerPc = "idle" /\ rejoinCluster = FALSE
    /\ lastCall = [op |-> "none", err |-> NoErr, early |-> FALSE]
    /\ starts = 0 /\ served = {}
    /\ loopPc = [l \in LoopIDs |-> "none"]
    /\ loopChan = [l \in LoopIDs |-> 0]
    /\ loopWal = [l \in LoopIDs |-> 0]
    /\ loopErr = [l \in LoopIDs |-> NoErr]
    /\ rd = [l \in LoopIDs |-> NoReady]
    /\ crashed = FALSE
    /\ fell = FALSE
    /\ hPc = "idle" /\ hOp = "none" /\ hResult = "none" /\ hDepth = 0
    /\ hAsync = FALSE /\ observers = 0
    /\ hSeen = FALSE /\ hGot = FALSE
    /\ mPc = "idle" /\ mOwn = FALSE /\ mPeers = NoPeers /\ mDoc = NoPeers
    /\ mOut = [err |-> NoErr, Peers |-> NoPeers]
    /\ stopperPc = "idle"
    /\ startMode = [k \in LoopIDs |-> ""]
    /\ handshakes = [k \in LoopIDs |-> "none"]
    /\ published = {}
    /\ applyCalls = <<>>
    /\ fanout = <<>>
    /\ events = <<>>

\* ---------------------------------------------------------------- Start
\* Start when rn.started is set: returns nil at once.
StartEarlyReturn ==
    /\ ~crashed /\ callerPc = "idle"
    /\ started
    /\ lastCall' = [op |-> "Start", err |-> NoErr, early |-> TRUE]
    /\ UNCHANGED <<cfgVars, metaVars, stopperPc, obsVars, lifeVars, chanVars, wal, diskVars, dataVars, callerPc,
                   rejoinCluster, starts, served, loopVars, crashed, fell, histVars>>

\* The steps of Start that can fail, for this node.
StartOutcomes ==
    {"ok"} \cup (IF walEnabled THEN {"initPersistentStorage"} ELSE {})
           \cup (IF shouldRejoinCluster THEN {"restoreRaft"} ELSE {"transport.Start"})

\* Start up to advanceTicksForElection: a fresh stop channel, the persistent
\* storage, then either the restored engine or a new transport and engine.
\* init: the value of rn.initialized when these steps are over.
StartSteps(outcome, init) ==
    LET walOpened == walEnabled /\ outcome # "initPersistentStorage"
        ms == IF shouldRejoinCluster THEN RestoredStorage ELSE raftStorage
    IN
    /\ ~crashed /\ callerPc = "idle"
    /\ ~started
    /\ starts < MaxStarts
    /\ outcome \in StartOutcomes
    /\ starts' = starts + 1
    /\ rejoinCluster' = shouldRejoinCluster
    /\ startMode' = [startMode EXCEPT ![starts + 1] =
                        IF shouldRejoinCluster THEN "rejoin" ELSE "fresh"]
    /\ stopc' = starts + 1
    /\ wal' = IF walOpened THEN [id |-> starts + 1, open |-> TRUE] ELSE wal
    /\ walExist' = (walExist \/ walOpened)
    /\ IF outcome = "ok"
       THEN /\ callerPc' = "start_spawn"
            /\ raftStorage' = ms
            /\ IF shouldRejoinCluster
               THEN /\ fsm' = IF snapDisk.Index > 0 THEN snapDisk.Data ELSE fsm
                    /\ transport' = [state |-> "started",
                                     peers |-> [n \in DOMAIN snapDisk.Peers |->
                                                  {RaftURL(snapDisk.Peers[n])}]]
                    /\ node' = NewEngine(ms, ms.snapshot.ConfState)
                    /\ elog' = elog
               ELSE /\ fsm' = fsm
                    /\ transport' = [state |-> "started", peers |-> NoPeers]
                    /\ node' = NewEngine(ms, IF bootstrapNode THEN {SelfID} ELSE {})
                    /\ elog' = IF bootstrapNode /\ elog = <<>>
                               THEN <<ConfChangeEntry("ConfChangeAddNode", SelfID, NoContext)>>
                               ELSE elog
            /\ published' = {} /\ applyCalls' = <<>> /\ fanout' = <<>>
            /\ events' = <<>>
            /\ UNCHANGED lastCall
       ELSE /\ callerPc' = "idle"
            /\ lastCall' = [op |-> "Start", err |-> outcome, early |-> FALSE]
            /\ transport' = IF outcome = "transport.Start"
                            THEN [state |-> "attached", peers |-> NoPeers] ELSE transport
            /\ UNCHANGED <<raftStorage, fsm, node, elog, published, applyCalls, fanout,
                           events>>
    /\ initialized' = init
    /\ UNCHANGED <<cfgVars, metaVars, stopperPc, obsVars, started, running, closedc, walLog, snapDisk, peerMap,
                   lastConfState, served, loopVars, crashed, fell, handshakes>>

\* A Start that sets rn.initialized before the steps that can fail.
StartSetupInitializedFirst(outcome) == StartSteps(outcome, TRUE)

\* Start up to advanceTicksForElection: rn.initialized is set after it.
StartSetup(outcome) == StartSteps(outcome, initialized)

\* rn.initialized = true, the three goroutines, rn.started = true.
StartSpawn ==
    /\ ~crashed /\ callerPc = "start_spawn"
    /\ initialized' = TRUE
    /\ loopPc' = [loopPc EXCEPT ![starts] = "init"]
    /\ served' = served \cup {starts}
    /\ started' = TRUE
    /\ callerPc' = "start_handshake"
    /\ UNCHANGED <<cfgVars, metaVars, stopperPc, obsVars, running, chanVars, wal, diskVars, dataVars, rejoinCluster,
                   lastCall, starts, loopChan, loopWal, loopErr, rd, crashed, fell, histVars>>

\* A choice of handshake that does not look at BootstrapNode.
HandshakeOfAnyNode(rejoin, bootstrap) ==
    IF rejoin THEN "rejoin" ELSE "join"

\* The handshake Start picks: selfRejoinCluster, addSelfToCluster or none.
HandshakeOf(rejoin, bootstrap) ==
    IF rejoin THEN "rejoin" ELSE IF ~bootstrap THEN "join" ELSE "none"

\* A Start that sets rn.running whatever the handshake returned.
StartHandshakeSetsRunning(ok) ==
    LET kind == HandshakeOf(rejoinCluster, bootstrapNode) IN
    /\ ~crashed /\ callerPc = "start_handshake"
    /\ kind = "none" => ok
    /\ running' = TRUE
    /\ handshakes' = [handshakes EXCEPT ![starts] = kind]
    /\ IF ok
       THEN callerPc' = "start_running" /\ UNCHANGED lastCall
       ELSE /\ callerPc' = "idle"
            /\ lastCall' = [op |-> "Start", err |-> kind, early |-> FALSE]
    /\ UNCHANGED <<cfgVars, metaVars, stopperPc, obsVars, started, initialized, chanVars, wal, diskVars, dataVars, rejoinCluster,
                   starts, served, loopVars, crashed, fell, startMode, published, applyCalls,
                   fanout, events>>

\* The handshake returns ok (it found a peer within the backoff budget) or not.
StartHandshake(ok) ==
    LET kind == HandshakeOf(rejoinCluster, bootstrapNode) IN
    /\ ~crashed /\ callerPc = "start_handshake"
    /\ kind = "none" => ok
    /\ handshakes' = [handshakes EXCEPT ![starts] = kind]
    /\ IF ok
       THEN callerPc' = "start_running" /\ UNCHANGED lastCall
       ELSE /\ callerPc' = "idle"
            /\ lastCall' = [op |-> "Start", err |-> kind, early |-> FALSE]
    /\ UNCHANGED <<cfgVars, metaVars, stopperPc, obsVars, lifeVars, chanVars, wal, diskVars, dataVars, rejoinCluster,
                   starts, served, loopVars, crashed, fell, startMode, published, applyCalls,
                   fanout, events>>

\* rn.running = true; return nil.
StartRunning ==
    /\ ~crashed /\ callerPc = "start_running"
    /\ running' = TRUE
    /\ callerPc' = "idle"
    /\ lastCall' = [op |-> "Start", err |-> NoErr, early |-> FALSE]
    /\ UNCHANGED <<cfgVars, metaVars, stopperPc, obsVars, started, initialized, chanVars, wal, diskVars, dataVars,
                   rejoinCluster, starts, served, loopVars, crashed, fell, histVars>>

\* ----------------------------------------------------------------- Stop
\* close(rn.stopc); rn.transport.Stop()
StopCall ==
    /\ ~crashed /\ callerPc = "idle"
    /\ started /\ stopc \notin closedc
    /\ closedc' = closedc \cup {stopc}
    /\ transport' = [transport EXCEPT !.state = "stopped"]
    /\ callerPc' = "stop_wait"
    /\ UNCHANGED <<cfgVars, metaVars, stopperPc, obsVars, lifeVars, stopc, wal, diskVars, peerMap, lastConfState,
                   raftStorage, fsm, node, elog, rejoinCluster, lastCall, starts,
                   served, loopVars, crashed, fell, histVars>>

\* A Stop that clears the flags without waiting for rn.running to fall.
StopWaitNoWait ==
    /\ ~crashed /\ callerPc = "stop_wait"
    /\ started' = FALSE /\ initialized' = FALSE
    /\ callerPc' = "idle"
    /\ lastCall' = [op |-> "Stop", err |-> NoErr, early |-> FALSE]
    /\ UNCHANGED <<cfgVars, metaVars, stopperPc, obsVars, running, chanVars, wal, diskVars, dataVars, rejoinCluster,
                   starts, served, loopVars, crashed, fell, histVars>>

\* for rn.running { sleep }; rn.started = false; rn.initialized = false
StopWait ==
    /\ ~crashed /\ callerPc = "stop_wait"
    /\ ~running
    /\ started' = FALSE /\ initialized' = FALSE
    /\ callerPc' = "idle"
    /\ lastCall' = [op |-> "Stop", err |-> NoErr, early |-> FALSE]
    /\ UNCHANGED <<cfgVars, metaVars, stopperPc, obsVars, running, chanVars, wal, diskVars, dataVars, rejoinCluster,
                   starts, served, loopVars, crashed, fell, histVars>>

\* Stop called from a second goroutine while the first is inside Start,
\* after Start has spawned the loop (the methods of Node take no lock):
\* close(rn.stopc); rn.transport.Stop()
StopperCall ==
    /\ ~crashed /\ stopperPc = "idle"
    /\ callerPc \in {"start_handshake", "start_running"}
    /\ stopc \notin closedc
    /\ closedc' = closedc \cup {stopc}
    /\ transport' = [transport EXCEPT !.state = "stopped"]
    /\ stopperPc' = "stop_wait"
    /\ UNCHANGED <<cfgVars, metaVars, obsVars, lifeVars, stopc, wal, diskVars, peerMap,
                   lastConfState, raftStorage, fsm, node, elog, callerVars, loopVars,
                   crashed, fell, histVars>>

\* for rn.running { sleep }; rn.started = false; rn.initialized = false
StopperWait ==
    /\ ~crashed /\ stopperPc = "stop_wait"
    /\ ~running
    /\ started' = FALSE /\ initialized' = FALSE
    /\ stopperPc' = "returned"
    /\ UNCHANGED <<cfgVars, metaVars, obsVars, running, chanVars, wal, diskVars, dataVars,
                   callerVars, loopVars, crashed, fell, histVars>>

\* -------------------------------------------------------------- Destroy
\* deletePersistentData: both directories are removed with all they hold.
deletePersistentData ==
    [walExist |-> FALSE, walLog |-> {}, snapDisk |-> NoSnapshot]

\* Destroy up to its wait.  removeSelfFromCluster either gets the removal
\* accepted by a peer within its backoff budget (ok) or returns its error,
\* and then Destroy returns it; after an accepted removal: close(rn.stopc);
\* rn.transport.Stop().
DestroyCall(ok) ==
    /\ ~crashed /\ callerPc = "idle"
    /\ started /\ stopc \notin closedc
    /\ IF ok
       THEN /\ closedc' = closedc \cup {stopc}
            /\ transport' = [transport EXCEPT !.state = "stopped"]
            /\ callerPc' = "destroy_wait"
            /\ UNCHANGED lastCall
       ELSE /\ lastCall' = [op |-> "Destroy", err |-> "removeSelfFromCluster",
                            early |-> FALSE]
            /\ UNCHANGED <<closedc, transport, callerPc>>
    /\ UNCHANGED <<cfgVars, metaVars, stopperPc, obsVars, lifeVars, stopc, wal, diskVars, peerMap, lastConfState,
                   raftStorage, fsm, node, elog, rejoinCluster, starts, served,
                   loopVars, crashed, fell, histVars>>

\* for rn.running { sleep }; rn.deletePersistentData(); the three flags
\* are cleared; return nil.
DestroyWait ==
    /\ ~crashed /\ callerPc = "destroy_wait"
    /\ ~running
    /\ walExist' = deletePersistentData.walExist
    /\ walLog' = deletePersistentData.walLog
    /\ snapDisk' = deletePersistentData.snapDisk
    /\ running' = FALSE /\ started' = FALSE /\ initialized' = FALSE
    /\ callerPc' = "idle"
    /\ lastCall' = [op |-> "Destroy", err |-> NoErr, early |-> FALSE]
    /\ UNCHANGED <<cfgVars, metaVars, stopperPc, obsVars, chanVars, wal, dataVars, rejoinCluster, starts, served,
                   loopVars, crashed, fell, histVars>>

\* ------------------------------------- proposePeerAddition / Deletion
\* What the select does when its 10 seconds are over: proposePeerAddition
\* returns the timeout error, proposePeerDeletion calls itself again.
AlwaysReturnsOnTimeout(op) == "return"
OnTimeout(op) == IF op = "add" THEN "return" ELSE "recurse"

\* The call up to ProposeConfChange: the channel is made and, when the
\* call is synchronous, the observer is registered (its Unregister is
\* deferred).  observers counts the observers of this request that the
\* registry holds.
ProposeRegister(op, async) ==
    /\ ~crashed /\ hPc = "idle"
    /\ node.alive
    /\ hPc' = "registered"
    /\ hOp' = op
    /\ hAsync' = async
    /\ observers' = IF async THEN observers ELSE observers + 1
    /\ UNCHANGED <<hResult, hDepth, hSeen, hGot>>
    /\ UNCHANGED <<cfgVars, metaVars, stopperPc, lifeVars, chanVars, wal, diskVars, dataVars, callerVars,
                   loopVars, crashed, fell, histVars>>

\* rn.node.ProposeConfChange: the engine takes the proposal, or the call
\* returns its error, which the request returns.
\* An asynchronous call returns nil as soon as the proposal is taken.  A
\* return runs the deferred Unregister of every frame of the request.
ProposeSubmit(ok) ==
    /\ ~crashed /\ hPc = "registered"
    /\ IF ~ok
       THEN hPc' = "returned" /\ hResult' = "ProposeConfChange" /\ observers' = 0
       ELSE IF hAsync
            THEN hPc' = "returned" /\ hResult' = NoErr /\ observers' = 0
            ELSE hPc' = "proposed" /\ UNCHANGED <<hResult, observers>>
    /\ UNCHANGED <<hOp, hDepth, hSeen, hGot, hAsync>>
    /\ UNCHANGED <<cfgVars, metaVars, stopperPc, lifeVars, chanVars, wal, diskVars, dataVars, callerVars,
                   loopVars, crashed, fell, histVars>>

\* The request reaches its select and blocks on the channel and the timer.
ProposeSelect ==
    /\ ~crashed /\ hPc = "proposed"
    /\ hPc' = "select"
    /\ UNCHANGED <<hOp, hResult, hDepth, hSeen, hGot, hAsync, observers>>
    /\ UNCHANGED <<cfgVars, metaVars, stopperPc, lifeVars, chanVars, wal, diskVars, dataVars, callerVars,
                   loopVars, crashed, fell, histVars>>

\* case <-time.After(10 * time.Second): nothing was received in time.  The
\* recursion makes a new channel and registers a new observer; it is the
\* operand of the return statement, so the deferred Unregister of the
\* calling frame has not run yet and its observer stays in the registry.
ProposeTimeout ==
    /\ ~crashed /\ hPc = "select"
    /\ IF OnTimeout(hOp) = "return"
       THEN /\ hPc' = "returned" /\ hResult' = "timeout"
            /\ observers' = 0
            /\ UNCHANGED hDepth
       ELSE /\ hDepth < MaxRetries
            /\ hPc' = "registered" /\ hDepth' = hDepth + 1
            /\ observers' = observers + 1
            /\ UNCHANGED hResult
    /\ UNCHANGED <<hOp, hSeen, hGot, hAsync>>
    /\ UNCHANGED <<cfgVars, metaVars, stopperPc, lifeVars, chanVars, wal, diskVars, dataVars, callerVars,
                   loopVars, crashed, fell, histVars>>

\* ------------------------------------------------------- the Ready loop
\* scanReady returns err: the deferred calls run (ticker.Stop, running =
\* false, wal.Close on the WAL the loop started with), and the goroutine
\* that Start spawned panics on a non-nil error, which ends the process.
\* A panic inside the loop unwinds through the same deferred calls.
LoopReturn(l, err, walId) ==
    /\ running' = FALSE
    /\ wal' = IF walId # 0 /\ walId = wal.id THEN [wal EXCEPT !.open = FALSE] ELSE wal
    /\ loopPc' = [loopPc EXCEPT ![l] = "exited"]
    /\ loopErr' = [loopErr EXCEPT ![l] = err]
    /\ crashed' = (err # NoErr)
    /\ fell' = (fell \/ running)

\* The loop goes back to its select, which evaluates rn.stopc anew.
ToSelect(l) ==
    /\ loopPc' = [loopPc EXCEPT ![l] = "select"]
    /\ loopChan' = [loopChan EXCEPT ![l] = stopc]

\* snapTicker stays nil when snapshotting is disabled but a data directory
\* is configured: the error built for that case is dropped.
SnapTickerIsNil == snapshotInterval <= 0 /\ dataDir
SnapTickerFires == snapshotInterval > 0

\* scanReady up to its first select: the deferred calls are registered, the
\* snapshot ticker is chosen, the initial snapshot is attempted (its error
\* is dropped), and the select reads snapTicker.C.
LoopInit(l, ok) ==
    LET r == createSnapAndCompact(TRUE, ok) IN
    /\ ~crashed /\ loopPc[l] = "init"
    /\ raftStorage' = r.ms
    /\ snapDisk' = r.disk
    /\ loopWal' = [loopWal EXCEPT ![l] = wal.id]
    /\ IF r.panic \/ SnapTickerIsNil
       THEN /\ LoopReturn(l, "panic", wal.id)
            /\ UNCHANGED loopChan
       ELSE /\ ToSelect(l)
            /\ UNCHANGED <<running, wal, loopErr, crashed, fell>>
    /\ UNCHANGED <<cfgVars, metaVars, stopperPc, obsVars, started, initialized, chanVars, walExist, walLog, peerMap,
                   lastConfState, transport, fsm, node, elog, callerVars, rd, histVars>>

\* case <-rn.stopc: return nil
LoopStop(l) ==
    /\ ~crashed /\ loopPc[l] = "select"
    /\ loopChan[l] \in closedc
    /\ LoopReturn(l, NoErr, loopWal[l])
    /\ UNCHANGED <<cfgVars, metaVars, stopperPc, obsVars, started, initialized, chanVars, diskVars, dataVars,
                   callerVars, loopChan, loopWal, rd, histVars>>

\* case <-ticker.C: rn.node.Tick().  The tick moves the engine's logical
\* clock, which only the engine reads; the loop is back at its select.
LoopTick(l) ==
    /\ ~crashed /\ loopPc[l] = "select"
    /\ node.alive
    /\ ToSelect(l)
    /\ UNCHANGED <<cfgVars, metaVars, stopperPc, obsVars, lifeVars, chanVars, wal, diskVars, dataVars, callerVars,
                   loopWal, loopErr, rd, crashed, fell, histVars>>

\* case <-snapTicker.C: createSnapAndCompact(false), an error ends the loop.
LoopSnapTick(l, ok) ==
    LET r == createSnapAndCompact(FALSE, ok) IN
    /\ ~crashed /\ loopPc[l] = "select"
    /\ SnapTickerFires
    /\ raftStorage' = r.ms
    /\ snapDisk' = r.disk
    /\ IF r.panic \/ r.err # NoErr
       THEN /\ LoopReturn(l, IF r.panic THEN "panic" ELSE r.err, loopWal[l])
            /\ UNCHANGED loopChan
       ELSE /\ ToSelect(l)
            /\ UNCHANGED <<running, wal, loopErr, crashed, fell>>
    /\ UNCHANGED <<cfgVars, metaVars, stopperPc, obsVars, started, initialized, chanVars, walExist, walLog, peerMap,
                   lastConfState, transport, fsm, node, elog, callerVars, loopWal, rd,
                   histVars>>

\* case rd := <-rn.node.Ready(): the engine hands out its next batch.  It
\* holds the entries after the last one handed out (entLo..entHi), possibly
\* behind a snapshot, the entries committed since the last Advance
\* (comLo..comHi) and messages for the peers.
LoopReady(l, snap, hi, commit) ==
    LET base == IF snap > 0 THEN snap ELSE node.stable
        floor == Max(node.applied, snap)
    IN
    /\ ~crashed /\ loopPc[l] = "select"
    /\ node.alive /\ ~node.rdOut
    /\ snap = 0 \/ snap > node.stable
    /\ hi >= base /\ hi <= MaxIndex
    /\ commit >= floor /\ commit <= hi
    /\ snap > 0 \/ hi > base \/ commit > floor
    /\ rd' = [rd EXCEPT ![l] =
                [NoReady EXCEPT !.entLo = base + 1, !.entHi = hi, !.comLo = floor + 1,
                                !.comHi = commit, !.Snapshot = snap, !.gen = node.gen]]
    /\ node' = [node EXCEPT !.rdOut = TRUE, !.stable = hi]
    /\ loopPc' = [loopPc EXCEPT ![l] = "rd_save"]
    /\ UNCHANGED <<cfgVars, metaVars, stopperPc, obsVars, lifeVars, chanVars, wal, diskVars, peerMap, lastConfState,
                   raftStorage, transport, fsm, elog, callerVars, loopChan, loopWal,
                   loopErr, crashed, fell, histVars>>

\* A loop that sends the batch's messages first, then saves.
RdSaveAfterSend(l, ok) ==
    /\ ~crashed /\ loopPc[l] = "rd_save"
    /\ ok => (wal.id # 0 /\ wal.open)
    /\ walLog' = IF ok THEN walLog \cup (rd[l].entLo..rd[l].entHi) ELSE walLog
    /\ rd' = [rd EXCEPT ![l].sent = TRUE, ![l].saveIssued = (wal.id # 0),
                        ![l].saved = ok]
    /\ loopPc' = [loopPc EXCEPT ![l] = "rd_append"]
    /\ UNCHANGED <<cfgVars, metaVars, stopperPc, obsVars, lifeVars, chanVars, wal, walExist, snapDisk, dataVars,
                   callerVars, loopChan, loopWal, loopErr, crashed, fell, histVars>>

\* if rn.wal != nil { rn.wal.Save(rd.HardState, rd.Entries) }: the result of
\* Save is dropped.  ok: whether the WAL took the write.
RdSave(l, ok) ==
    /\ ~crashed /\ loopPc[l] = "rd_save"
    /\ ok => (wal.id # 0 /\ wal.open)
    /\ IF wal.id # 0
       THEN /\ walLog' = IF ok THEN walLog \cup (rd[l].entLo..rd[l].entHi) ELSE walLog
            /\ rd' = [rd EXCEPT ![l].saveIssued = TRUE, ![l].saved = ok]
       ELSE UNCHANGED <<walLog, rd>>
    /\ loopPc' = [loopPc EXCEPT ![l] = "rd_append"]
    /\ UNCHANGED <<cfgVars, metaVars, stopperPc, obsVars, lifeVars, chanVars, wal, walExist, snapDisk, dataVars,
                   callerVars, loopChan, loopWal, loopErr, crashed, fell, histVars>>

\* rn.raftStorage.Append(rd.Entries)
RdAppend(l) ==
    LET r == StorageAppend(raftStorage, rd[l].entLo, rd[l].entHi) IN
    /\ ~crashed /\ loopPc[l] = "rd_append"
    /\ raftStorage' = r.ms
    /\ IF r.panic
       THEN /\ LoopReturn(l, "panic", loopWal[l])
            /\ UNCHANGED rd
       ELSE /\ loopPc' = [loopPc EXCEPT ![l] = "rd_send"]
            /\ rd' = [rd EXCEPT ![l].appended = TRUE]
            /\ UNCHANGED <<running, wal, loopErr, crashed, fell>>
    /\ UNCHANGED <<cfgVars, metaVars, stopperPc, obsVars, started, initialized, chanVars, diskVars, peerMap,
                   lastConfState, transport, fsm, node, elog, callerVars, loopChan,
                   loopWal, histVars>>

\* rn.transport.Send(rd.Messages)
RdSend(l) ==
    /\ ~crashed /\ loopPc[l] = "rd_send"
    /\ rd' = [rd EXCEPT ![l].sent = TRUE]
    /\ loopPc' = [loopPc EXCEPT ![l] = IF rd[l].Snapshot # 0 THEN "rd_snapshot"
                                       ELSE "rd_publish"]
    /\ UNCHANGED <<cfgVars, metaVars, stopperPc, obsVars, lifeVars, chanVars, wal, diskVars, dataVars, callerVars,
                   loopChan, loopWal, loopErr, crashed, fell, histVars>>

\* The content of an entry is fixed when the program first reads it: the
\* log known so far, extended by kinds up to index hi.
Learn(log, hi, kinds) ==
    [i \in 1..Max(hi, Len(log)) |-> IF i <= Len(log) THEN log[i] ELSE kinds[i]]

\* if !raft.IsEmptySnap(rd.Snapshot) { processSnapshot(rd.Snapshot) }
\* kinds: the entries the snapshot covers that this node never saw.
RdSnapshot(l, outcome, kinds) ==
    LET log == Learn(elog, rd[l].Snapshot, kinds)
        r == processSnapshot(SnapshotAt(log, rd[l].Snapshot), outcome, events)
    IN
    /\ ~crashed /\ loopPc[l] = "rd_snapshot"
    /\ DOMAIN kinds = (Len(elog) + 1)..rd[l].Snapshot
    /\ elog' = log
    /\ fsm' = r.fsm
    /\ transport' = [transport EXCEPT !.peers = r.peers]
    /\ snapDisk' = r.disk
    /\ raftStorage' = r.ms
    /\ IF r.err # NoErr
       THEN LoopReturn(l, r.err, loopWal[l])
       ELSE /\ loopPc' = [loopPc EXCEPT ![l] = "rd_publish"]
            /\ UNCHANGED <<running, wal, loopErr, crashed, fell>>
    \* the engine took its membership from the snapshot when it received it
    /\ node' = [node EXCEPT !.conf = ConfAt(log, rd[l].Snapshot)]
    /\ events' = r.events
    /\ UNCHANGED <<cfgVars, metaVars, stopperPc, obsVars, started, initialized, chanVars, walExist, walLog, peerMap,
                   lastConfState, callerVars, loopChan, loopWal, rd, startMode,
                   handshakes, published, applyCalls, fanout>>

\* The calls that observe makes into the filters of the n registered
\* observers of the request: every filter runs rn.node.ApplyConfChange on
\* every conf-change entry handed to it, before it looks at the entry's
\* type or node id.  evs[from + 1 ..] are the events of this batch.
RECURSIVE WithFilterCalls(_, _, _, _)
WithFilterCalls(evs, from, log, n) ==
    IF Len(evs) <= from THEN evs
    ELSE LET e == evs[Len(evs)]
             rest == WithFilterCalls(SubSeq(evs, 1, Len(evs) - 1), from, log, n)
             calls == IF e.op = "observe" /\ log[e.i].Type = "EntryConfChange"
                      THEN [k \in 1..n |-> Event("filter.ApplyConfChange", e.i)]
                      ELSE <<>>
         IN  Append(rest, e) \o calls

\* publishEntries(rd.CommittedEntries), an error ends the loop.
\* kinds: the committed entries this node reads for the first time.
RdPublish(l, kinds) ==
    LET log == Learn(elog, rd[l].comHi, kinds)
        st == publishEntries(
                  PubState(fsm, peerMap, transport.peers, lastConfState, node.conf,
                           fanout, published, applyCalls, events),
                  log, rd[l].comLo, rd[l].comHi)
        matched == \E k \in (Len(fanout) + 1)..Len(st.fanout) :
                       Matches(hOp, log[st.fanout[k]])
        sent == observe(hPc, matched)
    IN
    /\ ~crashed /\ loopPc[l] = "rd_publish"
    /\ DOMAIN kinds = (Len(elog) + 1)..rd[l].comHi
    /\ elog' = log
    /\ fsm' = st.fsm
    /\ peerMap' = st.peerMap
    /\ transport' = [transport EXCEPT !.peers = st.peers]
    /\ lastConfState' = st.lastConfState
    /\ node' = [node EXCEPT !.conf = st.conf]
    /\ fanout' = st.fanout
    /\ published' = st.published
    /\ applyCalls' = st.applyCalls
    /\ events' = WithFilterCalls(st.events, Len(events), log, observers)
    /\ hPc' = IF sent = "received" THEN "returned" ELSE hPc
    /\ observers' = IF sent = "received" THEN 0 ELSE observers
    /\ hResult' = IF sent = "received" THEN NoErr ELSE hResult
    /\ hGot' = (hGot \/ sent = "received")
    /\ hSeen' = (hSeen \/ (matched /\ hPc \in {"proposed", "select"}))
    /\ UNCHANGED <<hOp, hDepth, hAsync>>
    /\ IF st.err # NoErr
       THEN /\ LoopReturn(l, st.err, loopWal[l])
            /\ UNCHANGED rd
       ELSE /\ loopPc' = [loopPc EXCEPT ![l] = "rd_advance"]
            /\ rd' = [rd EXCEPT ![l].published = TRUE]
            /\ UNCHANGED <<running, wal, loopErr, crashed, fell>>
    /\ UNCHANGED <<cfgVars, metaVars, stopperPc, started, initialized, chanVars, diskVars, raftStorage,
                   callerVars, loopChan, loopWal, startMode, handshakes>>

\* rn.node.Advance(): the engine takes the batch as applied.  The call
\* blocks on an engine that is not waiting for this batch.
RdAdvance(l) ==
    /\ ~crashed /\ loopPc[l] = "rd_advance"
    /\ node.rdOut /\ node.gen = rd[l].gen
    /\ node' = [node EXCEPT !.rdOut = FALSE,
                            !.applied = Max(@, Max(rd[l].Snapshot, rd[l].comHi))]
    /\ rd' = [rd EXCEPT ![l] = NoReady]
    /\ events' = <<>>
    /\ ToSelect(l)
    /\ UNCHANGED <<cfgVars, metaVars, stopperPc, obsVars, lifeVars, chanVars, wal, diskVars, peerMap, lastConfState,
                   raftStorage, transport, fsm, elog, callerVars, loopWal, loopErr,
                   crashed, fell, startMode, handshakes, published, applyCalls, fanout>>

\* ------------------------------------------------------------------ Next
Batches == [snap : 0..MaxIndex, hi : 0..MaxIndex, commit : 0..MaxIndex]

\* The entries a peer can send: the context-free AddNode of this node is
\* written only by this node's own StartNode.
Kinds(hi) ==
    [(Len(elog) + 1)..hi ->
        EntryKinds \ {ConfChangeEntry("ConfChangeAddNode", SelfID, NoContext)}]

\* The caller's thread, past the setup of Start.
CallerStep ==
    \/ StartEarlyReturn
    \/ StartSpawn
    \/ \E ok \in BOOLEAN : StartHandshake(ok)
    \/ StartRunning
    \/ StopCall
    \/ StopWait

\* The goroutines running scanReady.
LoopStep ==
    \/ \E l \in LoopIDs, ok \in BOOLEAN : LoopInit(l, ok)
    \/ \E l \in LoopIDs : LoopStop(l)
    \/ \E l \in LoopIDs : LoopTick(l)
    \/ \E l \in LoopIDs, ok \in BOOLEAN : LoopSnapTick(l, ok)
    \/ \E l \in LoopIDs, b \in Batches : LoopReady(l, b.snap, b.hi, b.commit)
    \/ \E l \in LoopIDs, ok \in BOOLEAN : RdSave(l, ok)
    \/ \E l \in LoopIDs : RdAppend(l)
    \/ \E l \in LoopIDs : RdSend(l)
    \/ \E l \in LoopIDs, o \in SnapshotOutcomes :
          \E kinds \in Kinds(rd[l].Snapshot) : RdSnapshot(l, o, kinds)
    \/ \E l \in LoopIDs : \E kinds \in Kinds(rd[l].comHi) : RdPublish(l, kinds)
    \/ \E l \in LoopIDs : RdAdvance(l)

Next ==
    \/ \E o \in StartOutcomes : StartSetup(o)
    \/ CallerStep
    \/ LoopStep

Spec == Init /\ [][Next]_vars

\* One run of the node: Start gets past its early return once, so one Ready
\* loop serves the process.
NextRun ==
    \/ \E o \in StartOutcomes : starts = 0 /\ StartSetup(o)
    \/ CallerStep
    \/ LoopStep

SpecRun == Init /\ [][NextRun]_vars

\* The lifecycle of the node: Start, Stop and Destroy in any order with
\* restarts, over a log of MaxLifeIndex entries that arrive without
\* snapshots and hold a payload or the removal of this node.
MaxLifeIndex == 1

LifeBatches == [hi : 0..MaxLifeIndex, commit : 0..MaxLifeIndex]

LifeKinds(hi) ==
    [(Len(elog) + 1)..hi ->
        {NormalEntry("x"), ConfChangeEntry("ConfChangeRemoveNode", SelfID, NoContext)}]

DestroyStep ==
    \/ \E ok \in BOOLEAN : DestroyCall(ok)
    \/ DestroyWait

LifeLoopStep ==
    \/ \E l \in LoopIDs, ok \in BOOLEAN : LoopInit(l, ok)
    \/ \E l \in LoopIDs : LoopStop(l)
    \/ \E l \in LoopIDs : LoopTick(l)
    \/ \E l \in LoopIDs, ok \in BOOLEAN : LoopSnapTick(l, ok)
    \/ \E l \in LoopIDs, b \in LifeBatches : LoopReady(l, 0, b.hi, b.commit)
    \/ \E l \in LoopIDs, ok \in BOOLEAN : RdSave(l, ok)
    \/ \E l \in LoopIDs : RdAppend(l)
    \/ \E l \in LoopIDs : RdSend(l)
    \/ \E l \in LoopIDs : \E kinds \in LifeKinds(rd[l].comHi) : RdPublish(l, kinds)
    \/ \E l \in LoopIDs : RdAdvance(l)

NextLife ==
    \/ \E o \in StartOutcomes : StartSetup(o)
    \/ CallerStep
    \/ DestroyStep
    \/ LifeLoopStep

SpecLife == Init /\ [][NextLife]_vars

\* The scheduling of the lifecycle: a goroutine that can take a step takes
\* one, the select of a loop whose stop channel is closed takes that case
\* in the end (Go picks among the ready cases at random), and the polls of
\* Stop and Destroy go on.
LifeFairness ==
    /\ WF_vars(LifeLoopStep)
    /\ \A l \in LoopIDs : SF_vars(LoopStop(l))
    /\ WF_vars(StopWait)
    /\ WF_vars(DestroyWait)

SpecLifeFair == SpecLife /\ LifeFairness

\* One run of the node with a second goroutine that may call Stop while
\* Start is still at work.
StopperStep ==
    \/ StopperCall
    \/ StopperWait

NextTwoCallers ==
    \/ \E o \in StartOutcomes : starts = 0 /\ StartSetup(o)
    \/ CallerStep
    \/ StopperStep
    \/ LifeLoopStep

SpecTwoCallers == Init /\ [][NextTwoCallers]_vars

\* Membership requests: one run of the node, a log of MaxObsIndex entries
\* that arrive without snapshots and hold a payload or the AddNode or
\* RemoveNode of the peer, and one request of a client in flight.
MaxObsIndex == 2

ObsBatches == [hi : 0..MaxObsIndex, commit : 0..MaxObsIndex]

ObsKinds(hi) ==
    [(Len(elog) + 1)..hi ->
        {NormalEntry("x"), ConfChangeEntry("ConfChangeAddNode", PeerID, PeerContext),
         ConfChangeEntry("ConfChangeRemoveNode", PeerID, NoContext)}]

HandlerStep ==
    \/ \E op \in {"add", "delete"}, async \in BOOLEAN : ProposeRegister(op, async)
    \/ \E ok \in BOOLEAN : ProposeSubmit(ok)
    \/ ProposeSelect
    \/ ProposeTimeout

ObsLoopStep ==
    \/ \E l \in LoopIDs, ok \in BOOLEAN : LoopInit(l, ok)
    \/ \E l \in LoopIDs : LoopStop(l)
    \/ \E l \in LoopIDs : LoopTick(l)
    \/ \E l \in LoopIDs, b \in ObsBatches : LoopReady(l, 0, b.hi, b.commit)
    \/ \E l \in LoopIDs : RdSave(l, TRUE)
    \/ \E l \in LoopIDs : RdAppend(l)
    \/ \E l \in LoopIDs : RdSend(l)
    \/ \E l \in LoopIDs : \E kinds \in ObsKinds(rd[l].comHi) : RdPublish(l, kinds)
    \/ \E l \in LoopIDs : RdAdvance(l)

NextObs ==
    \/ \E o \in StartOutcomes : starts = 0 /\ StartSetup(o)
    \/ CallerStep
    \/ HandlerStep
    \/ ObsLoopStep

SpecObs == Init /\ [][NextObs]_vars

\* The codec of the snapshot metadata on its own: a peer map is encoded and
\* decoded again, or a document that came from elsewhere is decoded.
NodeIdValues == 0..(2 ^ IdBits - 1)

MetaRecords ==
    {Unmarshal(PeerContext), [IP |-> "10.0.0.3", RaftPort |-> "7003", APIPort |-> "8003"]}

\* Every map of at most MaxPeers node ids to peer records.
PeerMaps ==
    UNION {[ids -> MetaRecords] :
              ids \in {{}} \cup {{q[k] : k \in 1..MaxPeers} :
                                    q \in [1..MaxPeers -> NodeIdValues]}}

\* The characters of a key: the digits, a sign and a letter.
KeyChars == Digits \cup {"-", "x"}
KeyStrings(n) == UNION {[1..k -> KeyChars] : k \in 0..n}

\* Documents with one key of up to MaxKeyLen characters, or with up to
\* MaxPeers shorter keys.
Documents ==
    UNION {[keys -> {Unmarshal(PeerContext)}] :
              keys \in {{a} : a \in KeyStrings(MaxKeyLen)}
                       \cup {{q[k] : k \in 1..MaxPeers} :
                                q \in [1..MaxPeers -> KeyStrings(MaxKeyLen - 1)]}}

\* The orders in which a map iteration can take the keys of a document.
KeyOrders(doc) ==
    {o \in [1..Cardinality(DOMAIN doc) -> DOMAIN doc] :
        {o[k] : k \in DOMAIN o} = DOMAIN doc}

\* json.Marshal of the metadata with these peers.
MetaMarshal(peers) ==
    /\ mPc = "idle"
    /\ mPc' = "encoded" /\ mOwn' = TRUE
    /\ mPeers' = peers
    /\ mDoc' = MarshalJSON(peers)
    /\ UNCHANGED mOut
    /\ UNCHANGED <<cfgVars, stopperPc, lifeVars, chanVars, wal, diskVars, dataVars, callerVars,
                   loopVars, crashed, fell, histVars, obsVars>>

\* A document that MarshalJSON did not write reaches the decoder.
MetaReceive(doc) ==
    /\ mPc = "idle"
    /\ mPc' = "encoded" /\ mOwn' = FALSE
    /\ mDoc' = doc
    /\ UNCHANGED <<mPeers, mOut>>
    /\ UNCHANGED <<cfgVars, stopperPc, lifeVars, chanVars, wal, diskVars, dataVars, callerVars,
                   loopVars, crashed, fell, histVars, obsVars>>

\* json.Unmarshal of the document into a snapshotMetadata.
MetaUnmarshal(order) ==
    /\ mPc = "encoded"
    /\ order \in KeyOrders(mDoc)
    /\ mPc' = "decoded"
    /\ mOut' = UnmarshalJSON(mDoc, order, NoPeers)
    /\ UNCHANGED <<mOwn, mPeers, mDoc>>
    /\ UNCHANGED <<cfgVars, stopperPc, lifeVars, chanVars, wal, diskVars, dataVars, callerVars,
                   loopVars, crashed, fell, histVars, obsVars>>

InitMeta == Init /\ bootstrapNode /\ ~dataDir /\ snapshotInterval = 1

NextMeta ==
    \/ \E peers \in PeerMaps : MetaMarshal(peers)
    \/ \E doc \in Documents : MetaReceive(doc)
    \/ \E order \in KeyOrders(mDoc) : MetaUnmarshal(order)

SpecMeta == InitMeta /\ [][NextMeta]_vars

\* --------------------------------------------------------------- claims
Range(seq) == {seq[k] : k \in 1..Len(seq)}
IsRemoveSelf(e) ==
    e.Type = "EntryConfChange" /\ e.ccType = "ConfChangeRemoveNode" /\ e.NodeID = SelfID
IsPayload(e) == e.Type = "EntryNormal" /\ e.Data # ""

\* C1, as stated: in every batch the WAL save is issued before the append
\* to the in-memory storage, and both come before the batch's messages are
\* sent.
C1_SavedBeforeAppendBeforeSend ==
    \A l \in LoopIDs :
        /\ rd[l].appended => rd[l].saveIssued
        /\ rd[l].sent => rd[l].appended

\* C1, amended: in every batch the entries are appended to the in-memory
\* storage before the messages are sent; a node with a data directory
\* issues the WAL save before the append, and a node without one issues no
\* save at all.
C1_AppendBeforeSend_SaveWithDataDir ==
    \A l \in LoopIDs :
        /\ rd[l].sent => rd[l].appended
        /\ rd[l].appended => (rd[l].saveIssued <=> dataDir)
        /\ rd[l].saveIssued => dataDir

C1_Witness ==
    \E l \in LoopIDs : rd[l].sent /\ rd[l].appended /\ rd[l].saveIssued

\* C2: on a node with a data directory every entry handed to publishEntries
\* is held by the WAL, or covered by the snapshot on disk.
C2_AppliedEntriesInWal ==
    dataDir => \A i \in published : i \in walLog \/ i <= snapDisk.Index

\* C3: a batch whose WAL save failed is not processed further: the loop has
\* ended with an error.
C3_FailedSaveEndsLoop ==
    \A l \in LoopIDs :
        (rd[l].saveIssued /\ ~rd[l].saved) =>
            (loopPc[l] = "exited" /\ loopErr[l] # NoErr)

\* C4: fsm.Apply is called once for every committed normal entry with a
\* payload, in log order, and for no other entry; an entry without payload
\* is passed over without an error.
C4_ApplyOncePerPayloadInOrder ==
    /\ \A k \in 1..Len(applyCalls) :
          applyCalls[k] \in published /\ IsPayload(elog[applyCalls[k]])
    /\ \A j, k \in 1..Len(applyCalls) : j < k => applyCalls[j] < applyCalls[k]
    /\ \A i \in published :
          /\ IsPayload(elog[i]) => i \in Range(applyCalls)
          /\ elog[i] = NormalEntry("") => i \in Range(fanout)

C4_Witness ==
    /\ Len(applyCalls) >= 1
    /\ \E i \in published : elog[i] = NormalEntry("")

\* C5: a committed removal of this node ends the Ready loop with
\* ErrorRemovedFromCluster; no entry after the removal reaches the FSM, the
\* peerMap, the transport or the observers, and the engine is not advanced
\* past the batch.
C5_SelfRemovalEndsLoop ==
    /\ \A i \in published :
          IsRemoveSelf(elog[i]) =>
              \E l \in LoopIDs : loopErr[l] = ErrorRemovedFromCluster
    /\ \A l \in LoopIDs :
          loopErr[l] = ErrorRemovedFromCluster =>
              /\ loopPc[l] = "exited"
              /\ ~rd[l].published
              /\ node.rdOut /\ node.applied < rd[l].comLo
              /\ \E i \in rd[l].comLo..rd[l].comHi :
                    /\ i \in published /\ IsRemoveSelf(elog[i])
                    /\ \A j \in published : j <= i
                    /\ \A j \in Range(fsm) \cup Range(fanout) : j < i

C5_Witness ==
    \E l \in LoopIDs :
        /\ loopErr[l] = ErrorRemovedFromCluster
        /\ \E i \in published : IsRemoveSelf(elog[i]) /\ i < rd[l].comHi

\* C6: a Ready loop that ends with an error leaves the process alive, so
\* that Stop and Destroy can still be called.
C6_ErrorExitLeavesProcessAlive ==
    \A l \in LoopIDs : loopErr[l] \notin {NoErr, "panic"} => ~crashed

\* C7: between batches the key set of peerMap is the cluster's membership:
\* the ids added by committed AddNode changes or carried by the installed
\* snapshot, less the ids removed, this node's own id included.
C7_PeerMapIsMembership ==
    (/\ starts > 0 /\ loopPc[starts] = "select"
     /\ node.alive /\ ~node.rdOut /\ node.applied > 0)
        => DOMAIN peerMap = node.conf

\* C8: a node with snapshots disabled and a data directory is rejected at
\* startup: Start does not get to the point where it spawns the Ready loop.
C8_DisabledSnapshotsWithDataDirRejected ==
    SnapTickerIsNil => (~started /\ \A l \in LoopIDs : loopPc[l] = "none")

\* C9: a Start that failed in persistent storage initialisation, raft
\* restore or transport start leaves the node unstarted: the three flags
\* are false and no goroutine was spawned for it.
C9_FailedStartLeavesUnstarted ==
    (/\ callerPc = "idle" /\ lastCall.op = "Start"
     /\ lastCall.err \in {"initPersistentStorage", "restoreRaft", "transport.Start"})
        => /\ ~started /\ ~initialized /\ ~running
           /\ loopPc[starts] = "none" /\ starts \notin served

C9_Witness ==
    /\ callerPc = "idle" /\ lastCall.op = "Start"
    /\ lastCall.err \in {"initPersistentStorage", "restoreRaft", "transport.Start"}
    /\ starts > 0

\* C10, as stated: a bootstrap node performs no handshake on any start.
C10_BootstrapNeverHandshakes ==
    bootstrapNode => \A k \in LoopIDs : handshakes[k] = "none"

\* C10, amended: a bootstrap node never performs the join handshake; a start
\* that finds no WAL performs no handshake and, once Start has returned nil,
\* the node is running; a start that finds a WAL performs the rejoin
\* handshake.
C10_BootstrapHandshakeFollowsWal ==
    bootstrapNode =>
        /\ \A k \in LoopIDs :
              /\ handshakes[k] # "join"
              /\ startMode[k] = "fresh" => handshakes[k] = "none"
              /\ (/\ startMode[k] = "rejoin"
                  /\ (k < starts \/ callerPc \in {"start_running", "idle"})
                  /\ k \in served)
                     => handshakes[k] = "rejoin"
        /\ (/\ starts > 0 /\ startMode[starts] = "fresh" /\ callerPc = "idle"
            /\ lastCall = [op |-> "Start", err |-> NoErr, early |-> FALSE]
            /\ ~crashed)
               => running

C10_Witness ==
    /\ bootstrapNode /\ starts > 0
    /\ startMode[starts] = "rejoin" /\ handshakes[starts] = "rejoin"
    /\ running

IsRejected(e) == e.Type = "EntryNormal" /\ e.Data = RejectedData
ApplicationOps == {"fsm.Apply", "ApplyConfChange"}

\* C17, as stated: every committed entry handed to publishEntries is fanned
\* out to the observers.
C17_EveryPublishedEntryFannedOut ==
    \A i \in published : i \in Range(fanout)

\* C17, amended: an entry handed to publishEntries is fanned out exactly
\* once, after its own application step and before the next entry's, in
\* log order, unless its step returned an error (the removal of this node,
\* a payload the FSM rejects): that entry and the entries after it are not
\* fanned out.
C17_FanoutOncePerAppliedEntryInOrder ==
    /\ \A j, k \in 1..Len(fanout) : j < k => fanout[j] < fanout[k]
    /\ \A i \in published :
          i \in Range(fanout) <=> ~(IsRemoveSelf(elog[i]) \/ IsRejected(elog[i]))
    /\ Range(fanout) \subseteq published
    /\ \A k, m \in 1..Len(events) :
          (events[k].op = "observe" /\ events[m].op \in ApplicationOps)
              => (events[m].i <= events[k].i <=> m < k)

C17_Witness ==
    /\ Len(fanout) >= 1
    /\ \E i \in published : i \notin Range(fanout)
    /\ \E k \in 1..Len(events) : events[k].op = "observe"

SnapshotOps ==
    <<"transport.AddPeer", "fsm.Restore", "persistSnapshot", "ApplySnapshot",
      "ReportSnapshot">>

\* C18: a failing fsm.Apply or fsm.Restore ends the Ready loop with that
\* error and running false; the failing entry and the entries after it are
\* neither applied nor fanned out, the engine is not advanced, and after a
\* failed restore the snapshot is neither persisted nor applied to the
\* memory storage.
C18_FsmFailureEndsLoop ==
    /\ \A i \in published :
          IsRejected(elog[i]) => \E l \in LoopIDs : loopErr[l] = "fsm.Apply"
    /\ \A k \in 1..Len(events) :
          events[k].op = "fsm.Restore failed" =>
              \E l \in LoopIDs : loopErr[l] = "fsm.Restore"
    /\ \A l \in LoopIDs :
          /\ loopErr[l] = "fsm.Apply" =>
                /\ loopPc[l] = "exited" /\ ~running
                /\ node.rdOut /\ node.applied < rd[l].comLo /\ ~rd[l].published
                /\ \E i \in rd[l].comLo..rd[l].comHi :
                      /\ i \in published /\ IsRejected(elog[i])
                      /\ \A j \in published : j <= i
                      /\ \A j \in Range(fsm) \cup Range(fanout) : j < i
          /\ loopErr[l] = "fsm.Restore" =>
                /\ loopPc[l] = "exited" /\ ~running
                /\ node.rdOut /\ node.applied < rd[l].Snapshot /\ ~rd[l].published
                /\ snapDisk.Index # rd[l].Snapshot
                /\ raftStorage.snapshot.Index # rd[l].Snapshot
                /\ published \cap (rd[l].comLo..rd[l].comHi) = {}
                /\ \A k \in 1..Len(events) :
                      events[k].op \in {"transport.AddPeer", "fsm.Restore failed"}

C18_Witness ==
    \E l \in LoopIDs :
        /\ loopErr[l] = "fsm.Restore"
        /\ \E k \in 1..Len(events) : events[k].op = "fsm.Restore failed"

\* The effect one conf-change entry e must have had, from the state before
\* publishEntries to the state after it.
ConfChangeEffect(e) ==
    LET ctxData == Unmarshal(e.Context)
        url == <<"http://", ctxData.IP, ":", ctxData.RaftPort>>
        peers == transport.peers
        id == e.NodeID
    IN  /\ lastConfState' = [nil |-> FALSE, Nodes |-> ApplyConfChange(node.conf, e)]
        /\ IF e.ccType = "ConfChangeAddNode"
           THEN IF e.Context # NoContext
                THEN /\ DOMAIN peerMap' = DOMAIN peerMap \cup {id}
                     /\ peerMap'[id] = ctxData
                     /\ \A n \in DOMAIN peerMap \ {id} : peerMap'[n] = peerMap[n]
                     /\ IF id # SelfID /\ id \notin DOMAIN peers
                        THEN /\ DOMAIN transport'.peers = DOMAIN peers \cup {id}
                             /\ transport'.peers[id] = {url}
                             /\ \A n \in DOMAIN peers :
                                   transport'.peers[n] = peers[n]
                        ELSE transport'.peers = peers
                ELSE peerMap' = peerMap /\ transport'.peers = peers
           ELSE /\ DOMAIN peerMap' = DOMAIN peerMap \ {id}
                /\ \A n \in DOMAIN peerMap' : peerMap'[n] = peerMap[n]
                /\ DOMAIN transport'.peers = DOMAIN peers \ {id}
                /\ \A n \in DOMAIN transport'.peers : transport'.peers[n] = peers[n]

C20_SnapshotAdoptionOrder ==
    /\ \A j, k \in 1..Len(fsm) : j < k => fsm[j] < fsm[k]
    /\ \A k \in 1..Len(events) :
          events[k].op \in Range(SnapshotOps) => (k <= 5 /\ events[k].op = SnapshotOps[k])
    /\ \A l \in LoopIDs :
          (rd[l].Snapshot # 0 /\ loopPc[l] \in {"rd_publish", "rd_advance"}) =>
              /\ Len(events) >= 5
              /\ \A k \in 1..5 : events[k] = Event(SnapshotOps[k], rd[l].Snapshot)
              /\ \A k \in 1..Len(events) :
                    events[k].op = "fsm.Apply" => (k > 5 /\ events[k].i > rd[l].Snapshot)

C20_Witness ==
    \E l \in LoopIDs :
        /\ rd[l].Snapshot # 0 /\ loopPc[l] = "rd_advance"
        /\ Len(events) = 5 /\ Len(fsm) >= 1

\* C12: when Stop has returned, the loop of the running start has exited,
\* its WAL is closed, the transport is stopped and the three lifecycle
\* flags are false, also after a Start whose handshake failed.
C12_StopReturnsAfterLoopExit ==
    (callerPc = "idle" /\ lastCall.op = "Stop") =>
        /\ loopPc[starts] \in {"none", "exited"}
        /\ ~wal.open
        /\ transport.state = "stopped"
        /\ ~started /\ ~initialized /\ ~running

C14_DestroyDeletesAfterLoopExit ==
    /\ wal.open => walExist
    /\ (callerPc = "idle" /\ lastCall.op = "Destroy" /\ lastCall.err = NoErr) =>
          loopPc[starts] \in {"none", "exited"}

\* C13: under fair scheduling of the Ready loop a Stop that has sent the
\* stop signal returns: running falls and the caller is back from Stop.
C13_StopReturns == (callerPc = "stop_wait") ~> (callerPc = "idle" /\ ~running)

\* C15: a synchronous proposePeerAddition returns the timeout error only
\* if no matching AddNode entry was fanned out after it had submitted its
\* conf change, in every interleaving with the Ready loop.
C15_AddTimeoutOnlyIfNothingFannedOut ==
    (hOp = "add" /\ ~hAsync /\ hPc = "returned" /\ hResult = "timeout") => ~hSeen

C21_CompactedOnlyUpToPersistedSnapshot ==
    dataDir => raftStorage.offset <= snapDisk.Index

\* C22: after every step of the Ready loop the memory log satisfies
\* snapshot.index <= first_index - 1 <= last_index, also for a batch that
\* carries a snapshot and entries following it: the loop gets such a batch
\* past the append of its entries.
C22_LogInvariantAfterEveryStep ==
    /\ raftStorage.snapshot.Index <= raftStorage.offset
    /\ raftStorage.offset <= raftStorage.last
    /\ \A l \in LoopIDs :
          (rd[l].Snapshot # 0 /\ rd[l].entHi >= rd[l].entLo /\ loopPc[l] = "exited")
              => rd[l].appended

\* C23: Start runs its steps in a fixed order: the engine is pre-ticked
\* ElectionTick - 1 times before initialized is set; initialized is set and
\* the loop and the servers are spawned before a handshake is chosen; the
\* handshake is the rejoin handshake if a WAL existed at entry to Start,
\* else the join handshake on a node that is not the bootstrap node, else
\* none; running is set only after the handshake returned success, and a
\* failed handshake returns its error with running false.
C23_StartOrder ==
    /\ callerPc = "start_spawn" =>
          /\ node.alive /\ node.preTicks = ElectionTick - 1
          /\ ~initialized /\ ~running
          /\ loopPc[starts] = "none" /\ starts \notin served
          /\ handshakes[starts] = "none"
    /\ callerPc = "start_handshake" =>
          /\ initialized /\ ~running
          /\ loopPc[starts] # "none" /\ starts \in served
          /\ handshakes[starts] = "none"
    /\ callerPc = "start_running" =>
          /\ initialized /\ ~running
          /\ handshakes[starts] =
                (IF startMode[starts] = "rejoin" THEN "rejoin"
                 ELSE IF ~bootstrapNode THEN "join" ELSE "none")
    /\ (callerPc = "idle" /\ lastCall.op = "Start" /\ lastCall.err \in {"join", "rejoin"}) =>
          /\ ~running
          /\ lastCall.err = handshakes[starts]
    /\ running => starts \in served /\ node.preTicks = ElectionTick - 1

C23_Witness ==
    /\ callerPc = "idle" /\ lastCall = [op |-> "Start", err |-> NoErr, early |-> FALSE]
    /\ running /\ handshakes[starts] = "rejoin" /\ loopPc[starts] # "none"

\* The number a string of digits stands for, and whether a string is a
\* decimal number that fits a node id.
RECURSIVE ValueOf(_)
ValueOf(str) ==
    IF str = <<>> THEN 0
    ELSE ValueOf(SubSeq(str, 1, Len(str) - 1)) * 10 + DigitOf(str[Len(str)])
IsDecimalId(str) ==
    /\ Len(str) >= 1
    /\ \A k \in 1..Len(str) : str[k] \in Digits
    /\ ValueOf(str) < 2 ^ IdBits

\* C24: the metadata encoding round-trips: the encoded keys are the decimal
\* strings of the node ids (digits only, no leading zero, one key per id),
\* decoding what MarshalJSON wrote gives the peer map back, and decoding a
\* document with a key that is not a decimal number within the id width
\* returns an error, in whatever order the keys are taken.
C24_MetadataRoundTrip ==
    /\ (mPc # "idle" /\ mOwn) =>
          /\ \A key \in DOMAIN mDoc :
                /\ IsDecimalId(key)
                /\ Len(key) > 1 => key[1] # "0"
                /\ ValueOf(key) \in DOMAIN mPeers
                /\ mDoc[key] = mPeers[ValueOf(key)]
          /\ Cardinality(DOMAIN mDoc) = Cardinality(DOMAIN mPeers)
    /\ (mPc = "decoded" /\ mOwn) =>
          (mOut.err = NoErr /\ mOut.Peers = mPeers)
    /\ (mPc = "decoded" /\ \E key \in DOMAIN mDoc : ~IsDecimalId(key)) =>
          mOut.err # NoErr
    /\ (mPc = "decoded" /\ \A key \in DOMAIN mDoc : IsDecimalId(key)) =>
          (mOut.err = NoErr /\ DOMAIN mOut.Peers = {ValueOf(key) : key \in DOMAIN mDoc})

C24_Witness ==
    /\ mPc = "decoded" /\ mOwn
    /\ Cardinality(DOMAIN mPeers) = MaxPeers
    /\ \E id \in DOMAIN mPeers : id >= 10
    /\ \E a, b \in DOMAIN mPeers : mPeers[a] # mPeers[b]
    /\ mOut.Peers = mPeers

\* C25: IsRunning() is true only while the Ready loop of this node is
\* alive: spawned and not exited.
C25_RunningImpliesLoopAlive ==
    running => \E l \in LoopIDs : loopPc[l] \notin {"none", "exited"}

\* C26: whenever a call of Start returns nil the node is Running: at the
\* step in which Start returns nil, running is true.
C26_StartNilMeansRunning ==
    [][(/\ callerPc' = "idle"
        /\ lastCall'.op = "Start" /\ lastCall'.err = NoErr
        /\ (lastCall' # lastCall \/ callerPc = "start_running"))
          => running']_vars

\* C27: each committed conf-change entry is applied to the engine
\* (ApplyConfChange) exactly once on a node, by publishEntries, however
\* many membership requests are waiting with registered observers: among
\* the calls of a batch no entry has more than one ApplyConfChange, and a
\* conf-change entry that was fanned out has exactly one.
ConfApplyCalls == {"ApplyConfChange", "filter.ApplyConfChange"}

C27_ConfChangeAppliedExactlyOnce ==
    \A k \in 1..Len(events) :
        (\/ events[k].op \in ConfApplyCalls
         \/ (events[k].op = "observe" /\ elog[events[k].i].Type = "EntryConfChange"))
            => Cardinality({m \in 1..Len(events) :
                               /\ events[m].i = events[k].i
                               /\ events[m].op \in ConfApplyCalls}) = 1

\* C29: a synchronous membership request leaves the observer registry as
\* it found it: once it has returned, on any path, none of its observers
\* is registered; while a proposePeerDeletion retries at most one of its
\* observers is registered at a time; an asynchronous request registers
\* none.
C29_RegistryLeftAsFound ==
    /\ hPc \in {"idle", "returned"} => observers = 0
    /\ observers <= 1
    /\ hAsync => observers = 0

\* C28: every snapshot that createSnapAndCompact creates is consistent with
\* its index i: its data are the payloads of the normal entries up to i,
\* its peer map is the peer map after the conf changes up to i, its conf
\* state is the membership after the conf changes up to i; its index is
\* not below the index of the snapshot it replaces and not above the
\* applied index.  createSnapAndCompact runs from the loop's select (the
\* snapshot ticker and the stop signal).
C28_CreatedSnapshotConsistent ==
    [][(/\ starts > 0 /\ loopPc[starts] = "select"
        /\ raftStorage'.snapshot # raftStorage.snapshot)
          => /\ raftStorage'.snapshot =
                    SnapshotAt(elog, raftStorage'.snapshot.Index)
             /\ raftStorage'.snapshot.Index >= raftStorage.snapshot.Index
             /\ raftStorage'.snapshot.Index <= node.applied]_vars

====
